---- MODULE Spec2Model ----
(***************************************************************************)
(* The in-memory road-segment graph of src/lib/here/here.ts: the Graph     *)
(* class (addSegment, getSegment, getSegments, findClosest), the builder   *)
(* buildGraphFromHereResponse, and the path search shortestPathBFS.        *)
(*                                                                         *)
(* MapGraphSegment objects live in graph.heap; an object is named by its   *)
(* position there (a reference), so that one object stored twice in the    *)
(* graph is one record.  A JavaScript Map is an insertion-ordered sequence *)
(* of entries [k, v].                                                      *)
(***************************************************************************)
EXTENDS Integers, Sequences, FiniteSets, TLC

(* ------------------------------- bounds -------------------------------- *)

\* addSegment calls per graph
MaxSegments == 3

\* points of one link of a response (0: malformed, 1: degenerate, 2: two ends)
MaxLinkPoints == 2

\* link lengths are drawn from 0..MaxLength
MaxLength == 1

(* ------------------------------- values -------------------------------- *)

\* the value `undefined` where a segment reference is expected
Undefined == 0

\* Number.MAX_VALUE, above every distance of the table below
MAX_VALUE == 2147483647

Pt(lat, lng) == [latitude |-> lat, longitude |-> lng]

\* coordinates of the links of a response
Points == {Pt(0, 1), Pt(1, 0)}

\* coordinates of the chain fixture: A = (0,0)->(1,1), B = (1,1)->(2,2), C = (2,2)->(3,3)
ChainPoints == {Pt(0, 0), Pt(1, 1), Pt(2, 2), Pt(3, 3)}

\* coordinates of a query
QueryPoints == Points \cup ChainPoints

Lengths == 0..MaxLength

Descriptions == {"E4"}

(* distanceMeters on whole degrees 0..3: the haversine distance in metres, *)
(* rounded down to a whole metre (no two distinct distances of the table   *)
(* round to the same metre).  It depends on the two latitudes and on the   *)
(* absolute difference of the longitudes: DistanceTable[a1+1][b1+1][dl+1]. *)
DistanceTable ==
  << << <<0, 111194, 222389, 333584>>,
        <<111194, 157249, 248629, 351613>>,
        <<222389, 248629, 314474, 400862>>,
        <<333584, 351613, 400862, 471652>> >>,
     << <<111194, 157249, 248629, 351613>>,
        <<0, 111177, 222355, 333533>>,
        <<111194, 157225, 248568, 351516>>,
        <<222389, 248606, 314402, 400735>> >>,
     << <<222389, 248629, 314474, 400862>>,
        <<111194, 157225, 248568, 351516>>,
        <<0, 111127, 222254, 333381>>,
        <<111194, 157177, 248447, 351323>> >>,
     << <<333584, 351613, 400862, 471652>>,
        <<222389, 248606, 314402, 400735>>,
        <<111194, 157177, 248447, 351323>>,
        <<0, 111042, 222085, 333127>> >> >>

Abs(x) == IF x < 0 THEN -x ELSE x

distanceMeters(a1, a2, b1, b2) == DistanceTable[a1 + 1][b1 + 1][Abs(b2 - a2) + 1]

(* ------------------------------ Map ------------------------------------ *)

MapHas(m, key) == \E i \in 1..Len(m) : m[i].k = key

MapIndex(m, key) == CHOOSE i \in 1..Len(m) : m[i].k = key

MapGet(m, key) == m[MapIndex(m, key)].v

MapSet(m, key, val) ==
  IF MapHas(m, key)
  THEN [m EXCEPT ![MapIndex(m, key)] = [k |-> key, v |-> val]]
  ELSE Append(m, [k |-> key, v |-> val])

MapKeys(m) == {m[i].k : i \in 1..Len(m)}

(* --------------------------- MapGraphSegment --------------------------- *)

MapGraphSegment(start, end, length, name) ==
  [id |-> -1, start |-> start, end |-> end, length |-> length,
   name |-> name, edges |-> <<>>]

(* ------------------------------- Graph --------------------------------- *)

Graph == [heap |-> <<>>, nodes |-> <<>>, byStart |-> <<>>]

\* PointKey with the separator forgotten: the coordinates are added
PointKeySum(point) == ToString(point.latitude + point.longitude)

\* latitude + ',' + longitude
PointKey(point) == ToString(point.latitude) \o "," \o ToString(point.longitude)

\* addSegment numbering from 1
addSegmentOneBased(g, segment) ==
  LET id == Len(g.nodes) + 1
      startKey == PointKey(g.heap[segment].start)
      bucket == IF MapHas(g.byStart, startKey)
                THEN Append(MapGet(g.byStart, startKey), segment)
                ELSE <<segment>>
  IN [heap |-> [g.heap EXCEPT ![segment].id = id],
      nodes |-> MapSet(g.nodes, id, segment),
      byStart |-> MapSet(g.byStart, startKey, bucket)]

\* addSegment that puts the segment at the front of its bucket (unshift)
addSegmentAtFront(g, segment) ==
  LET id == Len(g.nodes)
      startKey == PointKey(g.heap[segment].start)
      bucket == IF MapHas(g.byStart, startKey)
                THEN <<segment>> \o MapGet(g.byStart, startKey)
                ELSE <<segment>>
  IN [heap |-> [g.heap EXCEPT ![segment].id = id],
      nodes |-> MapSet(g.nodes, id, segment),
      byStart |-> MapSet(g.byStart, startKey, bucket)]

\* addSegment that overwrites the bucket of the start key
addSegmentReplaceBucket(g, segment) ==
  LET id == Len(g.nodes)
      startKey == PointKey(g.heap[segment].start)
  IN [heap |-> [g.heap EXCEPT ![segment].id = id],
      nodes |-> MapSet(g.nodes, id, segment),
      byStart |-> MapSet(g.byStart, startKey, <<segment>>)]

addSegment(g, segment) ==
  LET id == Len(g.nodes)
      startKey == PointKey(g.heap[segment].start)
      bucket == IF MapHas(g.byStart, startKey)
                THEN Append(MapGet(g.byStart, startKey), segment)
                ELSE <<segment>>
  IN [heap |-> [g.heap EXCEPT ![segment].id = id],
      nodes |-> MapSet(g.nodes, id, segment),
      byStart |-> MapSet(g.byStart, startKey, bucket)]

\* getSegment reading the table as if its keys started at one
getSegmentOffByOne(g, id) ==
  IF MapHas(g.nodes, id + 1) THEN MapGet(g.nodes, id + 1) ELSE Undefined

getSegment(g, id) == IF MapHas(g.nodes, id) THEN MapGet(g.nodes, id) ELSE Undefined

getSegments(g, point) ==
  LET key == PointKey(point)
  IN IF MapHas(g.byStart, key) THEN MapGet(g.byStart, key) ELSE <<>>

\* findClosest keeping the last of the nearest segments (<= for <)
RECURSIVE findClosestFromLast(_, _, _, _, _)
findClosestFromLast(g, point, i, minDistance, closest) ==
  IF i > Len(g.nodes) THEN closest
  ELSE LET segment == g.nodes[i].v
           distance == distanceMeters(point.latitude, point.longitude,
                                      g.heap[segment].start.latitude,
                                      g.heap[segment].start.longitude)
       IN IF distance <= minDistance
          THEN findClosestFromLast(g, point, i + 1, distance, segment)
          ELSE findClosestFromLast(g, point, i + 1, minDistance, closest)

RECURSIVE findClosestFrom(_, _, _, _, _)
findClosestFrom(g, point, i, minDistance, closest) ==
  IF i > Len(g.nodes) THEN closest
  ELSE LET segment == g.nodes[i].v
           distance == distanceMeters(point.latitude, point.longitude,
                                      g.heap[segment].start.latitude,
                                      g.heap[segment].start.longitude)
       IN IF distance < minDistance
          THEN findClosestFrom(g, point, i + 1, distance, segment)
          ELSE findClosestFrom(g, point, i + 1, minDistance, closest)

\* findClosest answering -1, the id of an unstored segment, for no segment
findClosestNoSegmentId(g, point) ==
  LET closest == findClosestFrom(g, point, 1, MAX_VALUE, Undefined)
  IN IF closest = Undefined THEN -1 ELSE closest

findClosest(g, point) == findClosestFrom(g, point, 1, MAX_VALUE, Undefined)

(* ----------------------- buildGraphFromHereResponse -------------------- *)

\* new MapGraphSegment(...) followed by graph.addSegment(segment)
NewSegment(g, start, end, length, name) ==
  addSegment([g EXCEPT !.heap = Append(g.heap, MapGraphSegment(start, end, length, name))],
             Len(g.heap) + 1)

\* BuildLink taking the start from the last point and the end from the first
BuildLinkSwapped(g, link, description) ==
  LET p1 == link.points[Len(link.points)]
      point1 == Pt(p1.lat, p1.lng)
      p2 == link.points[1]
      point2 == Pt(p2.lat, p2.lng)
  IN NewSegment(g, point1, point2, link.length, description)

\* the body of the loop over links, for a link with at least one point
BuildLink(g, link, description) ==
  LET p1 == link.points[1]
      point1 == Pt(p1.lat, p1.lng)
      p2 == link.points[Len(link.points)]
      point2 == Pt(p2.lat, p2.lng)
  IN NewSegment(g, point1, point2, link.length, description)

\* the ids of the segments of a bucket, read as the pass reaches them
RECURSIVE PushNeighbours(_, _, _, _)
PushNeighbours(heap, segment, neighbours, j) ==
  IF j > Len(neighbours) THEN heap
  ELSE PushNeighbours(
         [heap EXCEPT ![segment].edges = Append(@, heap[neighbours[j]].id)],
         segment, neighbours, j + 1)

\* graph.forEach(segment => ...): the adjacency pass, in the order of nodes
RECURSIVE DeriveEdgesFrom(_, _)
DeriveEdgesFrom(g, i) ==
  IF i > Len(g.nodes) THEN g
  ELSE LET segment == g.nodes[i].v
           neighbours == getSegments(g, g.heap[segment].end)
       IN DeriveEdgesFrom(
            [g EXCEPT !.heap = PushNeighbours(g.heap, segment, neighbours, 1)],
            i + 1)

DeriveEdges(g) == DeriveEdgesFrom(g, 1)

\* the loops over results and links, for links with at least one point each
RECURSIVE BuildLinks(_, _, _, _)
BuildLinks(g, links, description, j) ==
  IF j > Len(links) THEN g
  ELSE BuildLinks(BuildLink(g, links[j], description), links, description, j + 1)

RECURSIVE BuildResults(_, _, _)
BuildResults(g, results, i) ==
  IF i > Len(results) THEN g
  ELSE BuildResults(BuildLinks(g, results[i].links, results[i].description, 1),
                    results, i + 1)

buildGraphFromHereResponse(results) == DeriveEdges(BuildResults(Graph, results, 1))

(* --------------------------- shortestPathBFS --------------------------- *)

\* insertIndex that also passes the entries of equal length (<= for <)
RECURSIVE insertIndexAfterEqual(_, _, _, _)
insertIndexAfterEqual(heap, array, segment, index) ==
  IF index <= Len(array) /\ heap[array[index]].length <= heap[segment].length
  THEN insertIndexAfterEqual(heap, array, segment, index + 1)
  ELSE index

RECURSIVE insertIndex(_, _, _, _)
insertIndex(heap, array, segment, index) ==
  IF index <= Len(array) /\ heap[array[index]].length < heap[segment].length
  THEN insertIndex(heap, array, segment, index + 1)
  ELSE index

\* insertOrdered that puts the segment at the end (push for splice)
insertOrderedAtEnd(heap, array, segment) == Append(array, segment)

\* array.splice(index, 0, segment); positions here are 1-based
insertOrdered(heap, array, segment) ==
  LET index == insertIndex(heap, array, segment, 1)
  IN SubSeq(array, 1, index - 1) \o <<segment>> \o SubSeq(array, index, Len(array))

\* edges.reduce(populate, []): the segments of the known ids, in order
RECURSIVE populate(_, _, _)
populate(g, edges, j) ==
  IF j > Len(edges) THEN <<>>
  ELSE LET segment == getSegment(g, edges[j])
       IN IF segment = Undefined
          THEN populate(g, edges, j + 1)
          ELSE <<segment>> \o populate(g, edges, j + 1)

\* insertAll that stops before the last segment
RECURSIVE insertAllButLast(_, _, _, _)
insertAllButLast(heap, array, segments, j) ==
  IF j >= Len(segments) THEN array
  ELSE insertAllButLast(heap, insertOrdered(heap, array, segments[j]), segments, j + 1)

\* segments.forEach(segment => insertOrdered(queue, segment))
RECURSIVE insertAll(_, _, _, _)
insertAll(heap, array, segments, j) ==
  IF j > Len(segments) THEN array
  ELSE insertAll(heap, insertOrdered(heap, array, segments[j]), segments, j + 1)

VisitedNode(shortestPath, shortestPathLength, length) ==
  [shortestPath |-> shortestPath, shortestPathLength |-> shortestPathLength,
   length |-> length]

NoNode == VisitedNode(<<>>, 0, 0)

\* NextSegment taking the position in edges for the id (for...in for for...of)
NextSegmentByIndex(g, seg, position) == getSegment(g, position - 1)

\* for (const edge of segment.edges): graph.getSegment(edge), at a 1-based position
NextSegment(g, seg, position) == getSegment(g, g.heap[seg].edges[position])

\* SeedVisited with the start segment put on its own path
SeedVisitedWithStart(g, s) ==
  MapSet(<<>>, g.heap[s].id, [shortestPath |-> <<s>>, shortestPathLength |-> 0,
                              length |-> g.heap[s].length])

\* visited after the start segment is seeded: empty path, cumulative length 0
SeedVisited(g, s) == MapSet(<<>>, g.heap[s].id, VisitedNode(<<>>, 0, g.heap[s].length))

\* Improves with > for <
ImprovesOnLonger(vis, id, newLength) ==
  \/ ~MapHas(vis, id)
  \/ newLength > MapGet(vis, id).shortestPathLength

\* Improves with <= for <
ImprovesOrEqual(vis, id, newLength) ==
  \/ ~MapHas(vis, id)
  \/ newLength <= MapGet(vis, id).shortestPathLength

\* the test of the relaxation: first visit, or a strictly smaller length
Improves(vis, id, newLength) ==
  \/ ~MapHas(vis, id)
  \/ newLength < MapGet(vis, id).shortestPathLength

(* ------------------------------- state --------------------------------- *)

VARIABLES
  graph,         \* the Graph and the segment objects made for it
  input,         \* the response given to buildGraphFromHereResponse, if any
  pc,            \* "building", "threw", "finalized", "loop", "edges", "returned"
  startSegment,  \* shortestPathBFS: findClosest(start)
  endSegment,    \* shortestPathBFS: findClosest(end)
  queue,         \* shortestPathBFS: the frontier, segment references
  visited,       \* shortestPathBFS: Map id -> VisitedNode
  segment,       \* the segment being expanded by the for loop
  visitedNode,   \* its VisitedNode, read before the for loop
  edge,          \* position of the for loop in segment.edges
  result,        \* [defined, path]: the value returned by shortestPathBFS
  other          \* the locals of a second call of shortestPathBFS on the graph

vars == <<graph, input, pc, startSegment, endSegment, queue, visited, segment,
          visitedNode, edge, result, other>>

searchVars == <<startSegment, endSegment, queue, visited, segment,
                visitedNode, edge, result>>

NoResult == [defined |-> FALSE, path |-> <<>>]

Returned(path) == [defined |-> TRUE, path |-> path]

NoSearch ==
  /\ startSegment = Undefined
  /\ endSegment = Undefined
  /\ queue = <<>>
  /\ visited = <<>>
  /\ segment = Undefined
  /\ visitedNode = NoNode
  /\ edge = 0
  /\ result = NoResult

\* the locals of a call of shortestPathBFS, as one record
Locals ==
  [pc |-> pc, startSegment |-> startSegment, endSegment |-> endSegment,
   queue |-> queue, visited |-> visited, segment |-> segment,
   visitedNode |-> visitedNode, edge |-> edge, result |-> result]

SetLocals(st) ==
  /\ pc' = st.pc
  /\ startSegment' = st.startSegment
  /\ endSegment' = st.endSegment
  /\ queue' = st.queue
  /\ visited' = st.visited
  /\ segment' = st.segment
  /\ visitedNode' = st.visitedNode
  /\ edge' = st.edge
  /\ result' = st.result

\* the locals of a call that has not been made yet
NotCalled ==
  [pc |-> "finalized", startSegment |-> Undefined, endSegment |-> Undefined,
   queue |-> <<>>, visited |-> <<>>, segment |-> Undefined,
   visitedNode |-> NoNode, edge |-> 0, result |-> NoResult]

\* no response: the links are given one at a time
NoInput == [given |-> FALSE, results |-> <<>>]

Response(results) == [given |-> TRUE, results |-> results]

Init ==
  /\ graph = Graph
  /\ input = NoInput
  /\ pc = "building"
  /\ NoSearch
  /\ other = NotCalled

(* ------------------------- steps of shortestPathBFS -------------------- *)

\* StartSearchStep that gives up when the two query points are the same point
StartSearchStepSamePoint(g, st, start, end) ==
  LET s == findClosest(g, start)
      e == findClosest(g, end)
  IN IF s = Undefined \/ e = Undefined \/ start = end
     THEN [st EXCEPT !.pc = "returned", !.startSegment = s, !.endSegment = e,
                     !.result = NoResult]
     ELSE [st EXCEPT !.pc = "loop", !.startSegment = s, !.endSegment = e,
                     !.queue = insertOrdered(g.heap, <<>>, s),
                     !.visited = SeedVisited(g, s)]

\* shortestPathBFS up to the while loop
StartSearchStep(g, st, start, end) ==
  LET s == findClosest(g, start)
      e == findClosest(g, end)
  IN IF s = Undefined \/ e = Undefined
     THEN [st EXCEPT !.pc = "returned", !.startSegment = s, !.endSegment = e,
                     !.result = NoResult]
     ELSE [st EXCEPT !.pc = "loop", !.startSegment = s, !.endSegment = e,
                     !.queue = insertOrdered(g.heap, <<>>, s),
                     !.visited = SeedVisited(g, s)]

\* queue.shift() that leaves the head in the queue
ShiftNothing(array) == array

\* the queue after queue.shift()
Shift(array) == Tail(array)

\* DequeueStep that records the destination's path and goes on with the loop
DequeueStepNoReturn(g, st) ==
  IF Len(st.queue) = 0
  THEN [st EXCEPT !.pc = "returned"]
  ELSE LET seg == getSegment(g, g.heap[Head(st.queue)].id)
           rest == [st EXCEPT !.queue = Shift(st.queue)]
       IN IF seg = Undefined \/ ~MapHas(st.visited, g.heap[seg].id)
          THEN rest
          ELSE IF g.heap[seg].id = g.heap[st.endSegment].id
          THEN [rest EXCEPT !.result = Returned(MapGet(st.visited, g.heap[seg].id).shortestPath)]
          ELSE IF Len(g.heap[seg].edges) = 0
          THEN rest
          ELSE [rest EXCEPT !.pc = "edges", !.segment = seg,
                            !.visitedNode = MapGet(st.visited, g.heap[seg].id),
                            !.edge = 1]

\* the while test and the head of one iteration, up to the for loop
DequeueStep(g, st) ==
  IF Len(st.queue) = 0
  THEN [st EXCEPT !.pc = "returned", !.result = NoResult]
  ELSE LET seg == getSegment(g, g.heap[Head(st.queue)].id)
           rest == [st EXCEPT !.queue = Shift(st.queue)]
       IN IF seg = Undefined \/ ~MapHas(st.visited, g.heap[seg].id)
          THEN rest
          ELSE IF g.heap[seg].id = g.heap[st.endSegment].id
          THEN [rest EXCEPT !.pc = "returned",
                            !.result = Returned(MapGet(st.visited, g.heap[seg].id).shortestPath)]
          ELSE IF Len(g.heap[seg].edges) = 0
          THEN rest
          ELSE [rest EXCEPT !.pc = "edges", !.segment = seg,
                            !.visitedNode = MapGet(st.visited, g.heap[seg].id),
                            !.edge = 1]

\* newLength without the own length of the expanded segment
NewLengthWithoutOwn(node) == node.shortestPathLength

\* newLength = visitedNode.shortestPathLength + visitedNode.length
NewLength(node) == node.shortestPathLength + node.length

\* the record that starts the path again at the neighbour
RecordForAlone(heap, node, nextSegment) ==
  VisitedNode(<<nextSegment>>, NewLength(node), heap[nextSegment].length)

\* the VisitedNode written for a neighbour reached from the node
RecordFor(heap, node, nextSegment) ==
  VisitedNode(Append(node.shortestPath, nextSegment), NewLength(node),
              heap[nextSegment].length)

\* the neighbour itself, queued in place of its edges
OnwardSelf(g, nextSegment) == <<nextSegment>>

\* nextSegment.edges.reduce(populate, []): what a recorded neighbour queues
Onward(g, nextSegment) == populate(g, g.heap[nextSegment].edges, 1)

\* one iteration of the for loop over segment.edges
ProcessEdgeStep(g, st) ==
  LET nextSegment == NextSegment(g, st.segment, st.edge)
      newLength == NewLength(st.visitedNode)
      relaxed ==
        IF nextSegment # Undefined /\ Improves(st.visited, g.heap[nextSegment].id, newLength)
        THEN [st EXCEPT
                !.visited = MapSet(st.visited, g.heap[nextSegment].id,
                                   RecordFor(g.heap, st.visitedNode, nextSegment)),
                !.queue = insertAll(g.heap, st.queue, Onward(g, nextSegment), 1)]
        ELSE st
  IN IF st.edge < Len(g.heap[st.segment].edges)
     THEN [relaxed EXCEPT !.edge = st.edge + 1]
     ELSE [relaxed EXCEPT !.pc = "loop", !.segment = Undefined,
                          !.visitedNode = NoNode, !.edge = 0]

\* GraphAfterEdge emptying the edges of the neighbour as it queues them
\* (edges.shift() until empty, for edges.reduce)
GraphAfterEdgeDrained(g, st) ==
  LET nextSegment == NextSegment(g, st.segment, st.edge)
      newLength == st.visitedNode.shortestPathLength + st.visitedNode.length
  IN IF nextSegment # Undefined /\ Improves(st.visited, g.heap[nextSegment].id, newLength)
     THEN [g EXCEPT !.heap[nextSegment].edges = <<>>]
     ELSE g

\* GraphAfterEdge storing the cumulative length in the neighbour's length
GraphAfterEdgeRelength(g, st) ==
  LET nextSegment == NextSegment(g, st.segment, st.edge)
      newLength == st.visitedNode.shortestPathLength + st.visitedNode.length
  IN IF nextSegment # Undefined /\ Improves(st.visited, g.heap[nextSegment].id, newLength)
     THEN [g EXCEPT !.heap[nextSegment].length = newLength + 1]
     ELSE g

\* the graph after one iteration of the for loop: the loop writes to visited
\* and queue only
GraphAfterEdge(g, st) == g

(* ------------------------------ actions -------------------------------- *)

HerePoints == {[lat |-> p.latitude, lng |-> p.longitude] : p \in Points}

LinkPointSeqs == UNION {[1..n -> HerePoints] : n \in 0..MaxLinkPoints}

Links == [points : LinkPointSeqs, length : Lengths]

\* one iteration of the builder's loop over links; link.points[0] of a link
\* without points is undefined and reading its lat raises a TypeError
AddLink(link, description) ==
  /\ pc = "building"
  /\ input = NoInput
  /\ Len(graph.nodes) < MaxSegments
  /\ IF Len(link.points) = 0
     THEN /\ pc' = "threw"
          /\ UNCHANGED graph
     ELSE /\ graph' = BuildLink(graph, link, description)
          /\ UNCHANGED pc
  /\ UNCHANGED <<searchVars, input, other>>

\* graph.addSegment(segment) on a segment object that is already stored
AddSegmentAgain(ref) ==
  /\ pc = "building"
  /\ Len(graph.nodes) < MaxSegments
  /\ graph' = addSegment(graph, ref)
  /\ UNCHANGED <<pc, searchVars, input, other>>

\* graph.addSegment(new MapGraphSegment(...)) on a graph whose adjacency pass
\* has run
AddSegmentLater(start, end, length, name) ==
  /\ pc = "finalized"
  /\ Len(graph.nodes) < MaxSegments
  /\ graph' = NewSegment(graph, start, end, length, name)
  /\ UNCHANGED <<pc, searchVars, input, other>>

\* the adjacency pass that ends buildGraphFromHereResponse
Finalize ==
  /\ pc = "building"
  /\ input = NoInput
  /\ graph' = DeriveEdges(graph)
  /\ pc' = "finalized"
  /\ UNCHANGED <<searchVars, input, other>>

\* shortestPathBFS up to the while loop
StartSearch(start, end) ==
  /\ pc = "finalized"
  /\ SetLocals(StartSearchStep(graph, Locals, start, end))
  /\ UNCHANGED <<graph, input, other>>

\* the while test and the head of one iteration, up to the for loop
Dequeue ==
  /\ pc = "loop"
  /\ SetLocals(DequeueStep(graph, Locals))
  /\ UNCHANGED <<graph, input, other>>

\* one iteration of the for loop over segment.edges
ProcessEdge ==
  /\ pc = "edges"
  /\ SetLocals(ProcessEdgeStep(graph, Locals))
  /\ graph' = GraphAfterEdge(graph, Locals)
  /\ UNCHANGED <<input, other>>

\* a graph built by buildGraphFromHereResponse, then searched
Next ==
  \/ \E link \in Links, description \in Descriptions : AddLink(link, description)
  \/ Finalize
  \/ \E start \in QueryPoints, end \in QueryPoints : StartSearch(start, end)
  \/ Dequeue
  \/ ProcessEdge

Spec == Init /\ [][Next]_vars

\* the Graph class used directly: any sequence of addSegment calls, on new
\* segment objects and on objects that are already stored
NextGraph ==
  \/ \E link \in Links, description \in Descriptions : AddLink(link, description)
  \/ \E ref \in 1..Len(graph.heap) : AddSegmentAgain(ref)
  \/ Finalize
  \/ \E start \in Points, end \in Points, length \in Lengths, name \in Descriptions :
        AddSegmentLater(start, end, length, name)

SpecGraph == Init /\ [][NextGraph]_vars

\* buildGraphFromHereResponse called on a whole response
ResponseDescriptions == {"E4", "E6"}

\* the numbers of links of the results of the responses
ResponseShapes == {<<>>, <<0>>, <<1>>, <<2>>, <<1, 1>>, <<0, 2>>, <<1, 0, 1>>}

ResultsOfShape(n) == [description : ResponseDescriptions, links : [1..n -> Links]]

ResponsesOfShape(shape) ==
  IF Len(shape) = 0 THEN {<<>>}
  ELSE IF Len(shape) = 1 THEN {<<a>> : a \in ResultsOfShape(shape[1])}
  ELSE IF Len(shape) = 2
  THEN {<<a, b>> : a \in ResultsOfShape(shape[1]), b \in ResultsOfShape(shape[2])}
  ELSE {<<a, b, c>> : a \in ResultsOfShape(shape[1]), b \in ResultsOfShape(shape[2]),
                      c \in ResultsOfShape(shape[3])}

Responses == UNION {ResponsesOfShape(shape) : shape \in ResponseShapes}

InitResponse ==
  /\ graph = Graph
  /\ input \in {Response(results) : results \in Responses}
  /\ pc = "building"
  /\ NoSearch
  /\ other = NotCalled

\* some link of the response has no point: reading p1.lat raises a TypeError
Throws(results) ==
  \E i \in 1..Len(results) : \E j \in 1..Len(results[i].links) :
    Len(results[i].links[j].points) = 0

\* one call of buildGraphFromHereResponse; the graph of a call that raises is
\* local to the call and lost
BuildResponse ==
  /\ pc = "building"
  /\ input.given
  /\ IF Throws(input.results)
     THEN /\ pc' = "threw"
          /\ UNCHANGED graph
     ELSE /\ graph' = buildGraphFromHereResponse(input.results)
          /\ pc' = "finalized"
  /\ UNCHANGED <<searchVars, input, other>>

NextResponse == BuildResponse

SpecResponse == InitResponse /\ [][NextResponse]_vars

\* searches over the finalized graph of a chain of three links of one length
ChainLengths == {0, 1, 10}

ChainLink(from, to, length) ==
  [points |-> <<[lat |-> from.latitude, lng |-> from.longitude],
                [lat |-> to.latitude, lng |-> to.longitude]>>,
   length |-> length]

ChainResponse(a, b, c, d, length) ==
  <<[description |-> "A", links |-> <<ChainLink(a, b, length)>>],
    [description |-> "B", links |-> <<ChainLink(b, c, length)>>],
    [description |-> "C", links |-> <<ChainLink(c, d, length)>>]>>

InitChain ==
  /\ \E a \in ChainPoints, b \in ChainPoints, c \in ChainPoints, d \in ChainPoints,
        length \in ChainLengths :
        /\ Cardinality({a, b, c, d}) = 4
        /\ graph = buildGraphFromHereResponse(ChainResponse(a, b, c, d, length))
  /\ input = NoInput
  /\ pc = "finalized"
  /\ NoSearch
  /\ other = NotCalled

NextSearch ==
  \/ \E start \in QueryPoints, end \in QueryPoints : StartSearch(start, end)
  \/ Dequeue
  \/ ProcessEdge

SpecChain == InitChain /\ [][NextSearch]_vars

\* searches over the finalized graph of any three links between the points:
\* cycles, links from a point to itself and links sharing a start included
ThreeLinks(l1, l2, l3) == <<[description |-> "A", links |-> <<l1, l2, l3>>]>>

InitThree ==
  /\ \E p1 \in Points, p2 \in Points, p3 \in Points, p4 \in Points, p5 \in Points,
        p6 \in Points, l1 \in Lengths, l2 \in Lengths, l3 \in Lengths :
        graph = buildGraphFromHereResponse(
                  ThreeLinks(ChainLink(p1, p2, l1), ChainLink(p3, p4, l2),
                             ChainLink(p5, p6, l3)))
  /\ input = NoInput
  /\ pc = "finalized"
  /\ NoSearch
  /\ other = NotCalled


\* two calls of shortestPathBFS on one finalized graph, their steps interleaved
StartOther(start, end) ==
  /\ pc \in {"finalized", "loop", "edges", "returned"}
  /\ other.pc = "finalized"
  /\ other' = StartSearchStep(graph, other, start, end)
  /\ UNCHANGED <<graph, input, pc, searchVars>>

DequeueOther ==
  /\ other.pc = "loop"
  /\ other' = DequeueStep(graph, other)
  /\ UNCHANGED <<graph, input, pc, searchVars>>

ProcessEdgeOther ==
  /\ other.pc = "edges"
  /\ other' = ProcessEdgeStep(graph, other)
  /\ graph' = GraphAfterEdge(graph, other)
  /\ UNCHANGED <<input, pc, searchVars>>

\* a link a -> b, a link b -> b, a link b -> c and a link c -> a
LoopResponse(a, b, c, l1, l2, l3, l4) ==
  <<[description |-> "A",
     links |-> <<ChainLink(a, b, l1), ChainLink(b, b, l2)>>],
    [description |-> "B",
     links |-> <<ChainLink(b, c, l3), ChainLink(c, a, l4)>>]>>

InitTwo ==
  /\ \E a \in Points, b \in Points, l2 \in Lengths, l3 \in Lengths, l4 \in Lengths :
        /\ a # b
        /\ graph = buildGraphFromHereResponse(LoopResponse(a, b, Pt(0, 0), 1, l2, l3, l4))
  /\ input = NoInput
  /\ pc = "finalized"
  /\ NoSearch
  /\ other = NotCalled

NextTwo ==
  \/ \E start \in QueryPoints, end \in QueryPoints : StartSearch(start, end)
  \/ Dequeue
  \/ ProcessEdge
  \/ \E start \in QueryPoints, end \in QueryPoints : StartOther(start, end)
  \/ DequeueOther
  \/ ProcessEdgeOther

SpecTwo == InitTwo /\ [][NextTwo]_vars

\* one search at a time over the graphs of both families; the while loop and
\* the for loop run on without waiting for anything
InitLive == InitThree \/ InitTwo

SpecLive ==
  InitLive /\ [][NextSearch]_vars /\ WF_vars(Dequeue) /\ WF_vars(ProcessEdge)

\* eight links: a -> b, b -> b, two routes from b to d, one through c1
\* (lengths 2 then 8) and one through c2 (lengths 5 then 6), d -> e, and a
\* link z -> z that no other link leads to
DetourResponse(l0, ln) ==
  <<[description |-> "A",
     links |-> <<ChainLink(Pt(0, 0), Pt(1, 1), l0), ChainLink(Pt(1, 1), Pt(1, 1), ln)>>],
    [description |-> "B",
     links |-> <<ChainLink(Pt(1, 1), Pt(0, 1), 2), ChainLink(Pt(0, 1), Pt(2, 2), 8)>>],
    [description |-> "C",
     links |-> <<ChainLink(Pt(1, 1), Pt(1, 0), 5), ChainLink(Pt(1, 0), Pt(2, 2), 6)>>],
    [description |-> "D",
     links |-> <<ChainLink(Pt(2, 2), Pt(3, 2), 7)>>],
    [description |-> "Z",
     links |-> <<ChainLink(Pt(3, 3), Pt(3, 3), 1)>>]>>

DetourLengths == {0, 1, 3}

InitDetour ==
  /\ \E l0 \in DetourLengths, ln \in DetourLengths :
        graph = buildGraphFromHereResponse(DetourResponse(l0, ln))
  /\ input = NoInput
  /\ pc = "finalized"
  /\ NoSearch
  /\ other = NotCalled

SpecDetour == InitDetour /\ [][NextSearch]_vars

\* searches over the finalized graph of any three links between three points,
\* each link ending at another point than it starts from
OpenPoints == {Pt(0, 0), Pt(1, 1), Pt(2, 2)}

InitOpen ==
  /\ \E p1 \in OpenPoints, p2 \in OpenPoints, p3 \in OpenPoints, p4 \in OpenPoints,
        p5 \in OpenPoints, p6 \in OpenPoints, l1 \in Lengths, l2 \in Lengths :
        /\ p1 # p2 /\ p3 # p4 /\ p5 # p6
        /\ graph = buildGraphFromHereResponse(
                     ThreeLinks(ChainLink(p1, p2, l1), ChainLink(p3, p4, l2),
                                ChainLink(p5, p6, 1)))
  /\ input = NoInput
  /\ pc = "finalized"
  /\ NoSearch
  /\ other = NotCalled

SpecOpen == InitOpen /\ [][NextSearch]_vars

\* the searches of SpecLive and SpecDetour, without the fairness conditions
InitSearch == InitLive \/ InitDetour

SpecSearch == InitSearch /\ [][NextSearch]_vars

\* shortestPathBFS run from the locals st to its return, with no other call
RECURSIVE RunAlone(_, _)
RunAlone(g, st) ==
  IF st.pc = "returned" THEN st.result
  ELSE IF st.pc = "loop" THEN RunAlone(g, DequeueStep(g, st))
  ELSE RunAlone(GraphAfterEdge(g, st), ProcessEdgeStep(g, st))

\* shortestPathBFS(graph, start, end) run alone
ResultAlone(g, start, end) == RunAlone(g, StartSearchStep(g, NotCalled, start, end))

(* ------------------------- notions of the claims ----------------------- *)

Searching == pc \in {"loop", "edges", "returned"} /\ startSegment # Undefined

Stored == {graph.nodes[i].v : i \in 1..Len(graph.nodes)}

\* the stored segment objects are pairwise distinct
DistinctObjects ==
  \A i \in 1..Len(graph.nodes), j \in 1..Len(graph.nodes) :
     i # j => graph.nodes[i].v # graph.nodes[j].v

Seg(ref) == graph.heap[ref]

Range(seq) == {seq[i] : i \in 1..Len(seq)}

\* the edges of the stored segments whose id is in S
EdgesOf(S) == UNION {Range(Seg(r).edges) : r \in {t \in Stored : Seg(t).id \in S}}

\* the ids reached from the ids of S by following edges any number of times
RECURSIVE ReachableFrom(_)
ReachableFrom(S) ==
  LET more == S \cup EdgesOf(S)
  IN IF more = S THEN S ELSE ReachableFrom(more)

Reachable(from, to) == Seg(to).id \in ReachableFrom({Seg(from).id})

\* refs 1, 2, 3 are a chain A -> B -> C of one length, and nothing else is stored
IsChain ==
  /\ Len(graph.heap) = 3
  /\ Len(graph.nodes) = 3
  /\ Seg(1).end = Seg(2).start
  /\ Seg(2).end = Seg(3).start
  /\ Seg(1).length = Seg(2).length
  /\ Seg(2).length = Seg(3).length

(* -------------------------------- claims ------------------------------- *)

\* C1: on a chain A -> B -> C of equal lengths, a search from a point that
\* resolves to A to a point that resolves to C returns exactly [B, C].
C1_ChainReturnsBC ==
  (pc = "returned" /\ IsChain /\ startSegment = 1 /\ endSegment = 3)
    => result = Returned(<<2, 3>>)

\* C2: on a non-empty finalized graph, a search whose destination segment is
\* reachable from its start segment along edges returns a path.
C2_ReachableReturnsPath ==
  (pc = "returned" /\ startSegment # Undefined /\ Reachable(startSegment, endSegment))
    => result.defined

\* C3: a path returned for a destination other than the start segment is
\* non-empty, ends with the destination and never contains the start segment;
\* the start segment's visited record stays the seeded one during the search.
C3_PathEndsAtDestination ==
  /\ Searching =>
       /\ MapHas(visited, Seg(startSegment).id)
       /\ MapGet(visited, Seg(startSegment).id)
            = VisitedNode(<<>>, 0, Seg(startSegment).length)
  /\ (pc = "returned" /\ result.defined /\ Seg(endSegment).id # Seg(startSegment).id)
       => /\ Len(result.path) > 0
          /\ result.path[Len(result.path)] = endSegment
          /\ \A i \in 1..Len(result.path) : result.path[i] # startSegment

C3_Witness ==
  /\ pc = "returned"
  /\ result.defined
  /\ endSegment # startSegment
  /\ Len(result.path) > 0

\* C4: when both query points resolve to the same segment the search returns
\* the empty path, whatever the segment's edges and length are.
C4_SameSegmentEmptyPath ==
  (pc = "returned" /\ startSegment # Undefined /\ startSegment = endSegment)
    => result = Returned(<<>>)

C4_Witness ==
  /\ pc = "returned"
  /\ startSegment # Undefined
  /\ startSegment = endSegment
  /\ Len(Seg(startSegment).edges) > 0
  /\ Seg(startSegment).length > 0
  /\ result.defined

\* C5: on an empty graph findClosest finds no segment for any point, and a
\* search returns the absent result without entering its loop.
C5_EmptyGraphNoRoute ==
  Len(graph.nodes) = 0 =>
    /\ \A point \in QueryPoints : findClosest(graph, point) = Undefined
    /\ pc \notin {"loop", "edges"}
    /\ pc = "returned" =>
         /\ result = NoResult
         /\ startSegment = Undefined /\ endSegment = Undefined
         /\ queue = <<>> /\ visited = <<>>

C5_Witness ==
  /\ pc = "returned"
  /\ Len(graph.nodes) = 0
  /\ ~result.defined

\* C6: a search whose destination is not reachable from the start segment
\* returns the absent result, and visited only ever holds the start segment
\* and segments reachable from it along edges.
C6_UnreachableNoRoute ==
  Searching =>
    /\ MapKeys(visited) \subseteq ReachableFrom({Seg(startSegment).id})
    /\ (pc = "returned" /\ ~Reachable(startSegment, endSegment)) => ~result.defined

C6_Witness ==
  /\ pc = "returned"
  /\ startSegment # Undefined
  /\ startSegment # endSegment
  /\ ~Reachable(startSegment, endSegment)
  /\ Len(visited) > 1
  /\ ~result.defined

\* C7: when the stored segment objects are distinct, the k-th inserted
\* segment (0-based) has id k, so the ids are distinct and are 0..n-1.
C7_IdsAreInsertionOrder ==
  DistinctObjects =>
    /\ \A i \in 1..Len(graph.nodes) :
         /\ graph.nodes[i].k = i - 1
         /\ Seg(graph.nodes[i].v).id = i - 1
    /\ \A r \in Stored, t \in Stored : r # t => Seg(r).id # Seg(t).id
    /\ {Seg(r).id : r \in Stored} = 0..(Len(graph.nodes) - 1)

C7_Witness ==
  /\ Len(graph.nodes) > 2
  /\ DistinctObjects
  /\ \E r \in Stored, t \in Stored :
       r # t /\ Seg(r).start = Seg(t).start /\ Seg(r).end = Seg(t).end
             /\ Seg(r).length = Seg(t).length

\* C8: after the adjacency pass of the builder, the ids in the edges of every
\* segment s are exactly the ids of the segments that start where s ends (s
\* itself when it starts where it ends); no such segment, no edges.
C8_EdgesAreSegmentsStartingAtEnd ==
  pc \in {"finalized", "loop", "edges", "returned"} =>
    \A s \in Stored :
      /\ Range(Seg(s).edges) = {Seg(t).id : t \in {u \in Stored : Seg(u).start = Seg(s).end}}
      /\ (\A t \in Stored : Seg(t).start # Seg(s).end) => Seg(s).edges = <<>>

C8_Witness ==
  /\ pc = "finalized"
  /\ \E s \in Stored : Seg(s).start = Seg(s).end /\ Seg(s).id \in Range(Seg(s).edges)
  /\ \E s \in Stored : Seg(s).edges = <<>>
  /\ \E s \in Stored : Len(Seg(s).edges) > 1

Distance(point, ref) ==
  distanceMeters(point.latitude, point.longitude,
                 Seg(ref).start.latitude, Seg(ref).start.longitude)

\* position of the first entry of nodes that holds ref
InsertionIndex(ref) ==
  CHOOSE i \in 1..Len(graph.nodes) :
    /\ graph.nodes[i].v = ref
    /\ \A j \in 1..(i - 1) : graph.nodes[j].v # ref

\* C9: on a non-empty graph findClosest returns a segment whose start is at
\* the least distance from the point and, among those, the first inserted;
\* a search resolves both of its points this way.
C9_FindClosestIsFirstNearest ==
  /\ Len(graph.nodes) > 0 =>
       \A point \in QueryPoints :
         LET s == findClosest(graph, point)
         IN /\ s \in Stored
            /\ \A t \in Stored :
                 /\ Distance(point, t) >= Distance(point, s)
                 /\ Distance(point, t) = Distance(point, s)
                      => /\ InsertionIndex(s) <= InsertionIndex(t)
                         /\ Seg(s).id <= Seg(t).id
  /\ Searching =>
       /\ \E point \in QueryPoints : startSegment = findClosest(graph, point)
       /\ \E point \in QueryPoints : endSegment = findClosest(graph, point)

C9_Witness ==
  /\ Searching
  /\ \E point \in QueryPoints, t \in Stored :
       /\ startSegment = findClosest(graph, point)
       /\ Seg(t).start # Seg(startSegment).start
       /\ Distance(point, t) = Distance(point, startSegment)
       /\ InsertionIndex(startSegment) < InsertionIndex(t)
  /\ \E point \in QueryPoints, t \in Stored :
       /\ endSegment = findClosest(graph, point)
       /\ InsertionIndex(t) < InsertionIndex(endSegment)
       /\ Distance(point, t) > Distance(point, endSegment)

StoredInOrder == [i \in 1..Len(graph.nodes) |-> graph.nodes[i].v]

StartingAt(point) ==
  LET StartsThere(ref) == Seg(ref).start = point
  IN SelectSeq(StoredInOrder, StartsThere)

\* how many entries of the primary table hold the segment object ref, that
\* is how many addSegment calls inserted it
TimesAdded(ref) ==
  Cardinality({i \in 1..Len(graph.nodes) : graph.nodes[i].v = ref})

\* how many entries of the sequence seq are the segment object ref
TimesListed(seq, ref) == Cardinality({i \in 1..Len(seq) : seq[i] = ref})

\* getSegments(point) is the sequence, in insertion order, of the stored
\* segments that start at point, and it is empty when there is none; every
\* stored segment lies in exactly one bucket of byStart, the one keyed by its
\* own start.
GetSegmentsInInsertionOrder ==
  /\ \A point \in QueryPoints : getSegments(graph, point) = StartingAt(point)
  /\ \A b \in 1..Len(graph.byStart) :
       \A c \in 1..Len(graph.byStart) : c # b => graph.byStart[c].k # graph.byStart[b].k
  /\ \A r \in Stored :
       /\ Cardinality({b \in 1..Len(graph.byStart) : r \in Range(graph.byStart[b].v)}) = 1
       /\ \A b \in 1..Len(graph.byStart) :
            r \in Range(graph.byStart[b].v) => graph.byStart[b].k = PointKey(Seg(r).start)

\* C10 as stated: after any sequence of addSegment calls, getSegments(point)
\* is exactly the segments that start at point, each once and in insertion
\* order, empty when there is none, and every stored segment lies in exactly
\* one bucket of byStart, the one keyed by its own start.
C10_EachSegmentListedOnce ==
  /\ GetSegmentsInInsertionOrder
  /\ \A point \in QueryPoints : \A r \in Stored :
       TimesListed(getSegments(graph, point), r) <= 1

\* C10: after any sequence of addSegment calls, getSegments(point) is exactly
\* the segments that start at point, in insertion order, each listed once for
\* every addSegment call that inserted it (so each once when no segment object
\* was added twice, and twice when one was added twice), and empty when no
\* segment starts at point; every stored segment lies in exactly one bucket of
\* byStart, the one keyed by its own start.
C10_GetSegmentsAreSegmentsStartingAtPoint ==
  /\ GetSegmentsInInsertionOrder
  /\ \A r \in Stored : \A point \in QueryPoints :
       TimesListed(getSegments(graph, point), r)
         = IF Seg(r).start = point THEN TimesAdded(r) ELSE 0
  /\ DistinctObjects =>
       \A point \in QueryPoints : \A r \in Stored :
         TimesListed(getSegments(graph, point), r) <= 1

\* a segment object added twice with another segment added in between: it is
\* listed twice at its start, the other segment once at another point, and
\* nothing at a third point
C10_Witness ==
  /\ Len(graph.nodes) > 2
  /\ \E point \in QueryPoints : getSegments(graph, point) = <<>>
  /\ \E r \in Stored, t \in Stored :
       /\ Seg(r).start # Seg(t).start
       /\ TimesAdded(r) = 2
       /\ TimesListed(getSegments(graph, Seg(r).start), r) = 2
       /\ TimesListed(getSegments(graph, Seg(t).start), t) = 1
       /\ \E i \in 2..Len(graph.nodes) :
            /\ graph.nodes[i].v = r
            /\ graph.nodes[i - 1].v = t

(* C11: an id, once assigned by addSegment, is never changed by a later
   operation (addSegment with any argument, a stored segment object included,
   or the adjacency pass), and getSegment(k) has id k for every id k of the
   primary table. *)
IdsIndexTable ==
  \A i \in 1..Len(graph.nodes) :
    Seg(getSegment(graph, graph.nodes[i].k)).id = graph.nodes[i].k

C11_IdsNeverChange ==
  [][/\ \A ref \in 1..Len(graph.heap) :
          Seg(ref).id # -1 => graph'.heap[ref].id = Seg(ref).id
     /\ IdsIndexTable']_vars

(* C12: getSegment(id) is the stored segment for every id in 0..n-1, where n
   is the number of stored segments, and undefined for every other id; the
   steps of the search, which call it, leave the graph as it was. *)
ProbeIds == (0 - 2)..(MaxSegments + 1)

C12_GetSegmentLooksUp ==
  /\ [](\A id \in ProbeIds :
          IF id \in 0..(Len(graph.nodes) - 1)
          THEN getSegment(graph, id) = graph.nodes[id + 1].v
          ELSE getSegment(graph, id) = Undefined)
  /\ [][(pc \in {"loop", "edges"}) => (graph' = graph)]_vars

C12_Witness ==
  /\ pc = "edges"
  /\ Len(graph.nodes) >= 2
  /\ segment = getSegment(graph, Seg(segment).id)
  /\ getSegment(graph, Len(graph.nodes) - 1) \in Stored
  /\ getSegment(graph, Len(graph.nodes)) = Undefined

(* C13: buildGraphFromHereResponse never raises an error on a malformed link:
   a link with one point or with no point is inserted as a segment whose
   start equals its end, and the builder goes on. *)
C13_MalformedLinksAccepted ==
  [][\A link \in Links, description \in Descriptions :
       (AddLink(link, description) /\ Len(link.points) < 2)
         => /\ pc' = "building"
            /\ Len(graph'.heap) = Len(graph.heap) + 1
            /\ graph'.heap[Len(graph'.heap)].start = graph'.heap[Len(graph'.heap)].end]_vars

(* C14: the graph returned by buildGraphFromHereResponse holds exactly one
   segment per link of the response, in result order and then link order:
   the k-th link has id k-1, start = its first point, end = its last point,
   length = its length and name = the description of its result; a result
   without links adds nothing, so the segment count is the total number of
   links. *)
RECURSIVE LinksInOrderFrom(_, _)
LinksInOrderFrom(results, i) ==
  IF i > Len(results) THEN <<>>
  ELSE [j \in 1..Len(results[i].links) |->
          [link |-> results[i].links[j], description |-> results[i].description]]
       \o LinksInOrderFrom(results, i + 1)

LinksInOrder(results) == LinksInOrderFrom(results, 1)

C14_OneSegmentPerLinkInOrder ==
  (input.given /\ pc = "finalized") =>
    LET links == LinksInOrder(input.results)
    IN /\ Len(graph.nodes) = Len(links)
       /\ Len(graph.heap) = Len(links)
       /\ \A k \in 1..Len(links) :
            LET s == Seg(getSegment(graph, k - 1))
                points == links[k].link.points
            IN /\ graph.nodes[k].k = k - 1
               /\ s.id = k - 1
               /\ s.start = Pt(points[1].lat, points[1].lng)
               /\ s.end = Pt(points[Len(points)].lat, points[Len(points)].lng)
               /\ s.length = links[k].link.length
               /\ s.name = links[k].description

C14_Witness ==
  /\ input.given
  /\ pc = "finalized"
  /\ Len(input.results) = 3
  /\ input.results[2].links = <<>>
  /\ input.results[1].description # input.results[3].description
  /\ Len(graph.nodes) = 2
  /\ Seg(getSegment(graph, 0)).name = input.results[1].description
  /\ Seg(getSegment(graph, 1)).name = input.results[3].description
  /\ Seg(getSegment(graph, 0)).start # Seg(getSegment(graph, 0)).end
  /\ Seg(getSegment(graph, 0)).start # Seg(getSegment(graph, 1)).start

(* C15: every step of shortestPathBFS leaves the graph as it was: the primary
   table, the byStart index, and the id, start, end, length, name and edges
   of every segment. *)
C15_SearchLeavesGraphUnchanged ==
  [][(pc \in {"finalized", "loop", "edges"}) =>
       /\ graph'.nodes = graph.nodes
       /\ graph'.byStart = graph.byStart
       /\ Len(graph'.heap) = Len(graph.heap)
       /\ \A ref \in 1..Len(graph.heap) :
            /\ graph'.heap[ref].id = Seg(ref).id
            /\ graph'.heap[ref].start = Seg(ref).start
            /\ graph'.heap[ref].end = Seg(ref).end
            /\ graph'.heap[ref].length = Seg(ref).length
            /\ graph'.heap[ref].name = Seg(ref).name
            /\ graph'.heap[ref].edges = Seg(ref).edges]_vars

C15_Witness ==
  /\ pc = "returned"
  /\ startSegment # Undefined
  /\ Len(visited) > 1
  /\ Len(queue) > 0
  /\ \E ref \in Stored : Len(Seg(ref).edges) > 1

(* C16: two searches over one finalized graph whose steps are interleaved in
   any order each return what the same call returns when it runs alone. *)
SameAsAlone(st) ==
  st.pc = "returned" =>
    \A start \in QueryPoints, end \in QueryPoints :
      (findClosest(graph, start) = st.startSegment
         /\ findClosest(graph, end) = st.endSegment)
        => st.result = ResultAlone(graph, start, end)

C16_InterleavedSearchesAgreeWithAlone == SameAsAlone(Locals) /\ SameAsAlone(other)

C16_Witness ==
  /\ pc = "returned"
  /\ other.pc = "returned"
  /\ result.defined
  /\ Len(result.path) > 0
  /\ Len(result.path) > 1
  /\ ~other.result.defined
  /\ other.startSegment # startSegment
  /\ Len(other.visited) > 1

(* C17: on every graph with non-negative lengths, cycles, self-loops and
   shared start points included, a search that has entered its loop returns:
   the frontier empties or the destination is returned. *)
C17_SearchTerminates == (pc \in {"loop", "edges"}) ~> (pc = "returned")

C17_Witness ==
  /\ pc = "returned"
  /\ startSegment # Undefined
  /\ queue = <<>>
  /\ ~result.defined
  /\ Len(visited) > 2
  /\ \E ref \in Stored : Seg(ref).start = Seg(ref).end /\ Seg(ref).length = 0
  /\ \E r1 \in Stored, r2 \in Stored :
        r1 # r2 /\ Seg(r1).start = Seg(r2).start /\ Seg(r1).id \in Range(Seg(r2).edges)

(* C18: a call goes from resolving its endpoints either to the failure for a
   missing endpoint, which happens exactly when the graph is empty, or to
   the search, never entered on an empty graph; the search ends in exactly
   one of success and exhaustion; a result exists only once the call has
   returned, and after the return no step follows. *)
NoEndpoint == startSegment = Undefined \/ endSegment = Undefined

Succeeded == ~NoEndpoint /\ result.defined

Exhausted == ~NoEndpoint /\ ~result.defined /\ queue = <<>>

C18_SearchStateMachine ==
  /\ [](/\ (pc = "returned") => (NoEndpoint <=> Len(graph.nodes) = 0)
        /\ (pc = "returned") => (NoEndpoint \/ Succeeded \/ Exhausted)
        /\ (pc \in {"loop", "edges"}) => (Len(graph.nodes) > 0 /\ ~NoEndpoint)
        /\ (pc # "returned") => (result = NoResult)
        /\ (pc \in {"building", "finalized"}) => NoSearch)
  /\ [][/\ pc # "returned"
        /\ (pc = "finalized") => (pc' \in {"loop", "returned"})
        /\ (pc = "finalized" /\ pc' = "returned") => NoEndpoint'
        /\ (pc \in {"loop", "edges"}) => (pc' \in {"loop", "edges", "returned"})
        /\ (pc \in {"loop", "edges"} /\ pc' = "returned") => (Succeeded' \/ Exhausted')]_vars

C18_Witness ==
  /\ pc = "returned"
  /\ Succeeded
  /\ Len(result.path) > 0
  /\ Len(queue) > 0

(* C19: addSegment(s) raises the segment count by exactly one, stores s under
   the id that equals the previous count, appends s to the end of the bucket
   of s.start, creating the bucket if there was none, and leaves every other
   bucket, every earlier entry of the table and the edges of every segment
   as they were. *)
BucketOf(g, key) == IF MapHas(g.byStart, key) THEN MapGet(g.byStart, key) ELSE <<>>

C19_AddSegmentFrame ==
  [][(pc' = pc /\ pc \in {"building", "finalized"}) =>
       LET n == Len(graph.nodes)
           s == graph'.nodes[Len(graph'.nodes)].v
           key == PointKey(graph'.heap[s].start)
       IN /\ Len(graph'.nodes) = n + 1
          /\ graph'.nodes[n + 1] = [k |-> n, v |-> s]
          /\ graph'.heap[s].id = n
          /\ \A i \in 1..n : graph'.nodes[i] = graph.nodes[i]
          /\ BucketOf(graph', key) = Append(BucketOf(graph, key), s)
          /\ MapKeys(graph'.byStart) = MapKeys(graph.byStart) \cup {key}
          /\ \A other_key \in MapKeys(graph.byStart) \ {key} :
               BucketOf(graph', other_key) = BucketOf(graph, other_key)
          /\ \A ref \in 1..Len(graph.heap) :
               graph'.heap[ref].edges = graph.heap[ref].edges]_vars

C19_Witness ==
  /\ pc = "finalized"
  /\ Len(graph.nodes) = MaxSegments
  /\ \E ref \in Stored : Len(Seg(ref).edges) > 0
  /\ LET last == graph.nodes[Len(graph.nodes)].v
     IN /\ Seg(last).edges = <<>>
        /\ Len(BucketOf(graph, PointKey(Seg(last).start))) > 1
        /\ \E ref \in Stored :
             ref # last /\ Seg(ref).end = Seg(last).start /\ Seg(last).id \notin Range(Seg(ref).edges)

(* C20: whenever the segment removed from the head of the frontier is the
   destination, the search returns at that step with the path recorded for
   the destination; the destination is never removed and passed over with
   the search going on. *)
C20_DestinationAtHeadReturns ==
  [][(/\ pc = "loop"
      /\ queue # <<>>
      /\ Seg(Head(queue)).id = Seg(endSegment).id)
       => /\ pc' = "returned"
          /\ MapHas(visited, Seg(endSegment).id)
          /\ result' = Returned(MapGet(visited, Seg(endSegment).id).shortestPath)]_vars

(* C21: at every step of a search, the record of every visited segment x holds
   x.length as its own length, and as its cumulative length the length of the
   start segment plus the lengths of all elements of its path but the last
   (0 for the start segment): the length of the route up to x, x excluded. *)
RECURSIVE SumLengths(_, _)
SumLengths(path, k) ==
  IF k <= 0 THEN 0 ELSE Seg(path[k]).length + SumLengths(path, k - 1)

C21_RecordedLengths ==
  Searching =>
    \A i \in 1..Len(visited) :
      LET x == getSegment(graph, visited[i].k)
          node == visited[i].v
      IN /\ x # Undefined
         /\ node.length = Seg(x).length
         /\ node.shortestPathLength =
              IF x = startSegment THEN 0
              ELSE Seg(startSegment).length
                     + SumLengths(node.shortestPath, Len(node.shortestPath) - 1)

C21_Witness ==
  /\ Searching
  /\ Seg(startSegment).length > 0
  /\ \E i \in 1..Len(visited) :
       /\ Len(visited[i].v.shortestPath) >= 2
       /\ Seg(visited[i].v.shortestPath[1]).length > 0
       /\ visited[i].v.shortestPathLength >= 2

(* C22: at every step of a search, the path recorded for a segment x other
   than the start is a connected chain: its first element is in the edges of
   the start segment, every later element is in the edges of the element
   before it, and its last element is x; so a returned path is a walk along
   edges from the start segment to the destination. *)
ChainFromStartTo(path, x) ==
  /\ Len(path) > 0
  /\ Seg(path[1]).id \in Range(Seg(startSegment).edges)
  /\ \A k \in 2..Len(path) : Seg(path[k]).id \in Range(Seg(path[k - 1]).edges)
  /\ path[Len(path)] = x

C22_RecordedPathsAreChains ==
  Searching =>
    /\ \A i \in 1..Len(visited) :
         LET x == getSegment(graph, visited[i].k)
         IN x # startSegment => ChainFromStartTo(visited[i].v.shortestPath, x)
    /\ (result.defined /\ endSegment # startSegment)
         => ChainFromStartTo(result.path, endSegment)

C22_Witness ==
  /\ pc = "returned"
  /\ result.defined
  /\ Len(result.path) >= 2
  /\ result.path[1] # result.path[2]
  /\ Len(visited) >= 4

(* C23: the record of a segment is written only when the segment has no
   record yet or when the candidate cumulative length is strictly smaller
   than the recorded one: over a search no recorded cumulative length ever
   increases, and a candidate equal to the recorded length changes neither
   visited nor the frontier. *)
RecordedLength(vis, id) == MapGet(vis, id).shortestPathLength

C23_RecordsOnlyImprove ==
  [][(pc \in {"loop", "edges"}) =>
       /\ \A id \in MapKeys(visited) :
            /\ MapHas(visited', id)
            /\ RecordedLength(visited', id) <= RecordedLength(visited, id)
            /\ \/ MapGet(visited', id) = MapGet(visited, id)
               \/ RecordedLength(visited', id) < RecordedLength(visited, id)
       /\ (pc = "edges") =>
            LET nextSegment == NextSegment(graph, segment, edge)
            IN (/\ nextSegment # Undefined
                /\ MapHas(visited, Seg(nextSegment).id)
                /\ NewLength(visitedNode) >= RecordedLength(visited, Seg(nextSegment).id))
                 => (visited' = visited /\ queue' = queue)]_vars

\* in the graphs of eight links the segment with id 6 is first recorded over
\* the route through ids 4 and 5, and rewritten over ids 2 and 3 when segment
\* 3, the longer one, is expanded later
C23_Witness ==
  /\ Len(graph.nodes) = 8
  /\ pc = "loop"
  /\ MapHas(visited, 6)
  /\ MapGet(visited, 6).shortestPath = <<3, 4, 7>>
  /\ MapGet(visited, 6).shortestPathLength = Seg(startSegment).length + 10
  /\ MapHas(visited, 5)

(* C24: each time a neighbour n is recorded, exactly one frontier entry is
   inserted for each id in n.edges, and n itself is not inserted by that
   step; a segment removed from the frontier that has no record is dropped
   without being expanded and without a change of visited. *)
Count(array, ref) == Cardinality({i \in 1..Len(array) : array[i] = ref})

TimesInEdges(n, ref) ==
  Cardinality({j \in 1..Len(Seg(n).edges) : Seg(n).edges[j] = Seg(ref).id})

Records(n) ==
  /\ pc = "edges"
  /\ n = NextSegment(graph, segment, edge)
  /\ n # Undefined
  /\ Improves(visited, Seg(n).id, NewLength(visitedNode))

QueuesItsEdges(n) ==
  \A ref \in 1..Len(graph.heap) :
    Count(queue', ref) = Count(queue, ref) + TimesInEdges(n, ref)

DropsUnrecordedHead ==
  (pc = "loop" /\ queue # <<>> /\ ~MapHas(visited, Seg(Head(queue)).id))
    => /\ pc' = "loop"
       /\ queue' = Tail(queue)
       /\ visited' = visited
       /\ result' = result

C24_NeighbourNeverQueuesItself ==
  [][/\ \A n \in 1..Len(graph.heap) :
          Records(n) => (QueuesItsEdges(n) /\ Count(queue', n) = Count(queue, n))
     /\ DropsUnrecordedHead]_vars

(* C24, amended: each time a neighbour n is recorded, exactly one frontier
   entry is inserted for each id in n.edges and nothing else; n itself is
   inserted by that step exactly when its own id is in n.edges, that is when
   n ends where it starts. A segment removed from the frontier that has no
   record is dropped without being expanded and without a change of visited. *)
C24_RecordingQueuesEdges ==
  [][/\ \A n \in 1..Len(graph.heap) :
          Records(n) =>
            /\ QueuesItsEdges(n)
            /\ Len(queue') = Len(queue) + Len(Seg(n).edges)
            /\ (Count(queue', n) > Count(queue, n)) <=> (Seg(n).start = Seg(n).end)
     /\ DropsUnrecordedHead]_vars

C24_Witness ==
  /\ pc = "edges"
  /\ edge >= 2
  /\ LET n == NextSegment(graph, segment, edge - 1)
     IN /\ n # Undefined
        /\ MapHas(visited, Seg(n).id)
        /\ MapGet(visited, Seg(n).id).shortestPath = Append(visitedNode.shortestPath, n)
        /\ Seg(n).start = Seg(n).end
        /\ Len(Seg(n).edges) >= 2
        /\ Count(queue, n) >= 1

(* C25: at every step of a search the frontier is in non-decreasing order of
   the own length of its entries, and insertOrdered puts a new entry after
   the entries that are shorter and before all entries of its own length or
   longer, so among equal lengths the latest inserted is removed first. *)
ShorterThan(array, s) ==
  Cardinality({i \in 1..Len(array) : Seg(array[i]).length < Seg(s).length})

C25_FrontierSortedByOwnLength ==
  Searching =>
    /\ \A i \in 1..(Len(queue) - 1) : Seg(queue[i]).length <= Seg(queue[i + 1]).length
    /\ \A s \in Stored :
         LET p == ShorterThan(queue, s)
         IN insertOrdered(graph.heap, queue, s)
              = SubSeq(queue, 1, p) \o <<s>> \o SubSeq(queue, p + 1, Len(queue))

C25_Witness ==
  /\ pc = "loop"
  /\ Len(queue) >= 3
  /\ \E k \in 1..(Len(queue) - 1) :
       Seg(queue[k]).length = Seg(queue[k + 1]).length /\ queue[k] # queue[k + 1]
  /\ Seg(queue[1]).length < Seg(queue[Len(queue)]).length
  /\ \E i \in 1..Len(queue), j \in 1..Len(queue) :
       /\ i < j
       /\ MapHas(visited, Seg(queue[i]).id)
       /\ MapHas(visited, Seg(queue[j]).id)
       /\ RecordedLength(visited, Seg(queue[i]).id)
            > RecordedLength(visited, Seg(queue[j]).id)

(* C26: the search is not optimal. In the graph of eight links, with lengths
   that differ and two routes branching at b, the search from the link a -> b
   to the link d -> e returns a path, and another chain of edges from the
   start segment to the destination has a strictly smaller cumulative length
   (start length plus the lengths of the path elements before the
   destination). *)
CumulativeLength(path) ==
  Seg(startSegment).length + SumLengths(path, Len(path) - 1)

ChainsTo(x) ==
  {path \in UNION {[1..n -> Stored] : n \in 1..3} : ChainFromStartTo(path, x)}

C26_DetourIsReturned ==
  (pc = "returned" /\ startSegment # Undefined /\ endSegment # Undefined
     /\ Seg(startSegment).id = 0 /\ Seg(endSegment).id = 6)
    => /\ result.defined
       /\ ChainFromStartTo(result.path, endSegment)
       /\ \E path \in ChainsTo(endSegment) :
            CumulativeLength(path) < CumulativeLength(result.path)

C26_Witness ==
  /\ pc = "returned"
  /\ Seg(startSegment).id = 0
  /\ Seg(endSegment).id = 6
  /\ result = Returned(<<5, 6, 7>>)
  /\ CumulativeLength(result.path) = Seg(startSegment).length + 11
  /\ ChainFromStartTo(<<3, 4, 7>>, endSegment)
  /\ CumulativeLength(<<3, 4, 7>>) = Seg(startSegment).length + 10

(* C27: on a graph in which every segment has a start different from its
   end, the start segment is the only segment a search ever expands, so the
   search returns a path exactly when the start and the destination are the
   same segment, and the absent result for every other destination, one that
   can be reached along edges included. *)
NoDegenerate == \A ref \in Stored : Seg(ref).start # Seg(ref).end

C27_OnlyStartExpanded ==
  (Searching /\ NoDegenerate) =>
    /\ (pc = "edges") => (segment = startSegment)
    /\ (pc = "returned") => (result.defined <=> startSegment = endSegment)

C27_Witness ==
  /\ pc = "returned"
  /\ startSegment # Undefined
  /\ NoDegenerate
  /\ Len(graph.nodes) = 3
  /\ startSegment # endSegment
  /\ Reachable(startSegment, endSegment)
  /\ Seg(endSegment).id \notin Range(Seg(startSegment).edges)
  /\ ~result.defined
  /\ Len(visited) > 1

(* C28: the result of shortestPathBFS depends on the query points only
   through the segments they resolve to: two calls on one finalized graph
   whose start points resolve to the same segment and whose end points
   resolve to the same segment return the same result, whichever points were
   given and whether the calls overlap or one follows the other. *)
C28_SameEndpointsSameResult ==
  (/\ pc = "returned"
   /\ other.pc = "returned"
   /\ other.startSegment = startSegment
   /\ other.endSegment = endSegment)
    => other.result = result

C28_Witness ==
  /\ pc = "returned"
  /\ other.pc = "returned"
  /\ other.startSegment = startSegment
  /\ other.endSegment = endSegment
  /\ startSegment # endSegment
  /\ result.defined
  /\ Len(result.path) > 1
  /\ \E p \in QueryPoints, q \in QueryPoints :
       p # q /\ findClosest(graph, p) = startSegment /\ findClosest(graph, q) = startSegment

====
